---- MODULE Spec2Model ----
(***************************************************************************)
(* Model of the contact synchronisation core of src/src/app.js:            *)
(*   - performSync (run log + contact store), lines 214-303;               *)
(*   - RealSyncEngine.performEnterpriseBidirectionalSync and the           *)
(*     POST /api/sync/contacts route that invokes it, lines 405-507 and    *)
(*     1292-1369.                                                          *)
(* JavaScript values are token sequences, so that null, undefined and the  *)
(* empty string stay distinct and === is plain equality.                   *)
(***************************************************************************)
EXTENDS Integers, Sequences, FiniteSets, TLC

\* ------------------------------------------------------------------ bounds
\* Invocations of performSync explored in one behaviour.
MaxRuns == 2
\* Contacts the Salesforce org holds at most (the query itself caps at 100).
MaxContacts == 12
\* Sink calls that fail (transport error or non-2xx) in one behaviour.
MaxFailures == 1
\* Contacts the org holds at most when two requests overlap.
MaxConcurrentContacts == 2
\* Rows the run log holds at most when its history is queried.
MaxLogRows == 12

\* --------------------------------------------------- program constants
\* salesforceContacts.slice(0, 10)
WriteLimit == 10
\* filtered.slice(0, 5)
SampleLimit == 5
\* this.sleep(200)
SleepMs == 200
\* ORDER BY started_at DESC LIMIT 10
HistoryLimit == 10

\* ------------------------------------------------------------- JS values
NULL == <<"#null">>
UNDEFINED == <<"#undefined">>
EMPTY == <<>>

\* JavaScript truthiness of a string-or-nullish value.
Truthy(v) == v # NULL /\ v # UNDEFINED /\ v # EMPTY

\* v || d
OrElse(v, d) == IF Truthy(v) THEN v ELSE d

\* String.prototype.trim over token sequences (a blank is the token " ").
RECURSIVE TrimLeft(_)
TrimLeft(s) == IF s # <<>> /\ Head(s) = " " THEN TrimLeft(Tail(s)) ELSE s

RECURSIVE TrimRight(_)
TrimRight(s) ==
  IF s # <<>> /\ s[Len(s)] = " " THEN TrimRight(SubSeq(s, 1, Len(s) - 1)) ELSE s

Trim(s) == TrimRight(TrimLeft(s))

\* A value as the pg driver binds it: undefined is sent as SQL NULL.
ToSql(v) == IF v = UNDEFINED THEN NULL ELSE v

\* ---------------------------------------------------------------- emails
E1 == <<"alice", "@", "acme.com">>
E2 == <<"bob", "@", "acme.com">>
EEdge == <<"carol", "@", "edge.com">>

\* --------------------------------------------------------- CRM contents
\* Raw Salesforce records (Account?.Name is AccountName; UNDEFINED when the
\* record has no Account).
SalesforceRecords ==
  << [Id |-> <<"sf1">>, FirstName |-> <<"A">>, LastName |-> <<"L">>, Email |-> E1,
      Phone |-> <<"5">>, AccountName |-> <<"X">>],
     [Id |-> <<"sf2">>, FirstName |-> <<"B">>, LastName |-> NULL, Email |-> E2,
      Phone |-> NULL, AccountName |-> UNDEFINED],
     [Id |-> <<"sf3">>, FirstName |-> NULL, LastName |-> <<"N">>, Email |-> NULL,
      Phone |-> NULL, AccountName |-> <<"X">>] >>

\* Raw HubSpot records (the properties object flattened).
HubSpotRecords ==
  << [id |-> <<"hs1">>, firstname |-> <<"A">>, lastname |-> <<"L">>, email |-> E1,
      phone |-> <<"5">>, company |-> <<"X">>],
     [id |-> <<"hs2">>, firstname |-> <<"A">>, lastname |-> <<"L">>, email |-> E1,
      phone |-> <<"6">>, company |-> <<"Y">>],
     [id |-> <<"hs3">>, firstname |-> <<"B">>, lastname |-> UNDEFINED, email |-> E2,
      phone |-> UNDEFINED, company |-> UNDEFINED],
     [id |-> <<"hs4">>, firstname |-> UNDEFINED, lastname |-> <<"N">>, email |-> NULL,
      phone |-> NULL, company |-> <<"X">>] >>

\* The subsequence of s at the positions in keep.
RECURSIVE Pick(_, _, _)
Pick(s, keep, i) ==
  IF i > Len(s) THEN <<>>
  ELSE (IF i \in keep THEN <<s[i]>> ELSE <<>>) \o Pick(s, keep, i + 1)

\* What a CRM can answer: any selection of its records, in storage order.
Selections(s) == { Pick(s, keep, 1) : keep \in SUBSET (1..Len(s)) }

\* HTTP statuses of a failed fetch.
HttpErrors == {<<"500">>}

\* -------------------------------------------------------- normalisation
\* fetchSalesforceContacts: data.records.map(...)
NormalizeSalesforce(c) ==
  [id |-> c.Id,
   name |-> Trim(OrElse(c.FirstName, EMPTY) \o <<" ">> \o OrElse(c.LastName, EMPTY)),
   email |-> c.Email,
   phone |-> c.Phone,
   company |-> OrElse(c.AccountName, EMPTY)]

\* fetchHubSpotContacts: data.results.map(...)
NormalizeHubSpot(c) ==
  [id |-> c.id,
   name |-> Trim(OrElse(c.firstname, EMPTY) \o <<" ">> \o OrElse(c.lastname, EMPTY)),
   email |-> c.email,
   phone |-> c.phone,
   company |-> OrElse(c.company, EMPTY)]

SalesforceApiError(status) == <<"Salesforce API error: ">> \o status
HubSpotApiError(status) == <<"HubSpot API error: ">> \o status
NotConnectedError == <<"User not found or CRM accounts not connected">>
DatabaseError == <<"database error">>

\* ------------------------------------------------------------ users table
UserIds == {1, 2, 3, 4}

\* Rows of the users table: user 1 has connected both CRMs, user 2 only
\* Salesforce, user 3 only HubSpot; there is no user 4.
users ==
  [id \in {1, 2, 3} |->
     [salesforce_token |-> IF id = 3 THEN NULL ELSE <<"sf-token">>,
      hubspot_token |-> IF id = 2 THEN NULL ELSE <<"hs-token">>]]

\* A guard that asks for the Salesforce token only.
CredentialsOk_SalesforceOnly(id) ==
  /\ id \in DOMAIN users
  /\ Truthy(users[id].salesforce_token)

\* The guard of performSync, negated: getUserById finds the user, and the
\* user has both tokens.
CredentialsOk(id) ==
  /\ id \in DOMAIN users
  /\ Truthy(users[id].salesforce_token)
  /\ Truthy(users[id].hubspot_token)

VARIABLES
  sync_logs,        \* the sync_logs table: rows in id order (id = position)
  contacts,         \* the contacts table: rows in id order
  contactsKeyed,    \* whether contacts has a unique key on (user_id, email)
  clock,            \* NOW() of the database, as a logical time
  pc,               \* position of the performSync invocation in progress
  runs,             \* invocations of performSync so far
  passed,           \* ... of which passed the credential check
  runUser,          \* userId of the invocation
  syncLog,          \* syncLog.id of the invocation (0: none created)
  termRow,          \* id of the row given a terminal status by the invocation
  sfFetch,          \* fetchSalesforceContacts: "idle", "pending", "ok", "failed"
  hsFetch,          \* fetchHubSpotContacts: likewise
  salesforceContacts, \* what fetchSalesforceContacts resolved to
  hubspotContacts,  \* what fetchHubSpotContacts resolved to
  processedContacts,
  conflicts,
  storeIdx,         \* next element of processedContacts to store
  upserts,          \* upsert statements applied by the invocation
  fetchFailed,      \* which fetch rejected: "none", "salesforce", "hubspot"
  fetchStatus,      \* ... and with which HTTP status
  error,            \* message of the error caught in the catch block
  outcome,          \* "none", "returned", "thrown"
  result            \* the returned object, or the message of the thrown error

syncVars ==
  <<sync_logs, contacts, contactsKeyed, clock, pc, runs, passed, runUser, syncLog,
    termRow, sfFetch, hsFetch, salesforceContacts, hubspotContacts, processedContacts,
    conflicts, storeIdx, upserts, fetchFailed, fetchStatus, error, outcome, result>>

VARIABLES
  session,          \* req.session: salesforceToken, hubspotToken
  org,              \* the contacts of the Salesforce org, in query order
  sink,             \* emails of the contacts HubSpot holds
  engClock,         \* wall clock of the engine, in ms
  failures,         \* sink calls that have failed so far
  eng               \* per request: the state of its RealSyncEngine run

engineVars == <<session, org, sink, engClock, failures, eng>>

VARIABLES
  history,          \* rows the last getUserSyncHistory returned
  historyUser       \* ... and the user it was called for, 0 before any call

historyVars == <<history, historyUser>>

vars == <<syncVars, engineVars, historyVars>>

\* --------------------------------------------------------- run log rows
\* An INSERT that stamps completed_at as well.
createSyncLog_Completed(userId, status, contactsProcessed, conflictCount, errorMessage) ==
  [user_id |-> userId, status |-> status, contacts_processed |-> contactsProcessed,
   conflicts |-> conflictCount, error_message |-> errorMessage,
   started_at |-> clock, completed_at |-> clock]

\* createSyncLog: INSERT INTO sync_logs (...) VALUES (...); started_at
\* defaults to NOW(), completed_at to NULL.
createSyncLog(userId, status, contactsProcessed, conflictCount, errorMessage) ==
  [user_id |-> userId, status |-> status, contacts_processed |-> contactsProcessed,
   conflicts |-> conflictCount, error_message |-> errorMessage,
   started_at |-> clock, completed_at |-> 0]

\* An error row that drops the message of the error it records.
CatchRow_Generic(userId, message) ==
  createSyncLog(userId, "error", 0, 0, <<"Sync failed">>)

\* The row the catch block of performSync inserts.
CatchRow(userId, message) == createSyncLog(userId, "error", 0, 0, message)

\* UPDATE sync_logs SET status, contacts_processed, conflicts, completed_at
\* WHERE id = $4
CompleteRow(row, processed, conflictCount) ==
  [row EXCEPT !.status = "success", !.contacts_processed = processed,
              !.conflicts = conflictCount, !.completed_at = clock]

\* ------------------------------------------------------- reconciliation
\* hubspotContacts.find(hc => hc.email === sfContact.email): index of the
\* first match, 0 when there is none.
FindIndex(hsContacts, email) ==
  LET hits == { i \in 1..Len(hsContacts) : hsContacts[i].email = email }
  IN IF hits = {} THEN 0 ELSE CHOOSE i \in hits : \A j \in hits : i <= j

\* A comparison that looks at the name only.
hasConflict_NameOnly(sfContact, hubspotMatch) ==
  sfContact.name # hubspotMatch.name

hasConflict(sfContact, hubspotMatch) ==
  \/ sfContact.name # hubspotMatch.name
  \/ sfContact.phone # hubspotMatch.phone
  \/ sfContact.company # hubspotMatch.company

\* An element whose hubspot_id falls back to the Salesforce id.
Processed_OwnId(userId, sfContact, hsContacts) ==
  LET m == FindIndex(hsContacts, sfContact.email)
  IN [user_id |-> userId,
      salesforce_id |-> sfContact.id,
      hubspot_id |-> IF m # 0 THEN hsContacts[m].id ELSE sfContact.id,
      email |-> sfContact.email,
      name |-> sfContact.name,
      phone |-> sfContact.phone,
      company |-> sfContact.company]

\* The element pushed to processedContacts for one Salesforce contact.
Processed(userId, sfContact, hsContacts) ==
  LET m == FindIndex(hsContacts, sfContact.email)
  IN [user_id |-> userId,
      salesforce_id |-> sfContact.id,
      hubspot_id |-> IF m # 0 THEN hsContacts[m].id ELSE UNDEFINED,
      email |-> sfContact.email,
      name |-> sfContact.name,
      phone |-> sfContact.phone,
      company |-> sfContact.company]

ProcessedContacts(userId, sfContacts, hsContacts) ==
  [i \in 1..Len(sfContacts) |->
     Processed(userId, sfContacts[i], hsContacts)]

\* The conflicts array: one entry per Salesforce contact whose match differs.
Conflicts(sfContacts, hsContacts) ==
  LET differs(sf) ==
        LET m == FindIndex(hsContacts, sf.email)
        IN m # 0 /\ hasConflict(sf, hsContacts[m])
      entry(sf) ==
        [email |-> sf.email, salesforce |-> sf,
         hubspot |-> hsContacts[FindIndex(hsContacts, sf.email)]]
      conflicting == SelectSeq(sfContacts, differs)
  IN [i \in DOMAIN conflicting |-> entry(conflicting[i])]

\* --------------------------------------------------------- contact store
\* Row of contacts that conflicts with (user_id, email) under the unique key;
\* 0 when there is none. SQL NULL never equals NULL, so a NULL email never
\* conflicts.
ConflictRow(table, userId, email) ==
  LET hits == { i \in 1..Len(table) :
                  /\ ToSql(email) # NULL
                  /\ table[i].user_id = userId
                  /\ table[i].email = ToSql(email) }
  IN IF hits = {} THEN 0 ELSE CHOOSE i \in hits : TRUE

\* An upsert whose DO UPDATE sets the two CRM ids as well.
Upsert_AllColumns(table, contact) ==
  LET k == ConflictRow(table, contact.user_id, contact.email)
  IN IF k = 0
     THEN Append(table,
            [user_id |-> contact.user_id,
             salesforce_id |-> ToSql(contact.salesforce_id),
             hubspot_id |-> ToSql(contact.hubspot_id),
             email |-> ToSql(contact.email),
             name |-> ToSql(contact.name),
             phone |-> ToSql(contact.phone),
             company |-> ToSql(contact.company),
             last_synced |-> clock])
     ELSE [table EXCEPT ![k] =
             [@ EXCEPT !.salesforce_id = ToSql(contact.salesforce_id),
                       !.hubspot_id = ToSql(contact.hubspot_id),
                       !.name = ToSql(contact.name), !.phone = ToSql(contact.phone),
                       !.company = ToSql(contact.company), !.last_synced = clock]]

\* INSERT INTO contacts ... ON CONFLICT (user_id, email) DO UPDATE SET name,
\* phone, company, last_synced
Upsert(table, contact) ==
  LET k == ConflictRow(table, contact.user_id, contact.email)
  IN IF k = 0
     THEN Append(table,
            [user_id |-> contact.user_id,
             salesforce_id |-> ToSql(contact.salesforce_id),
             hubspot_id |-> ToSql(contact.hubspot_id),
             email |-> ToSql(contact.email),
             name |-> ToSql(contact.name),
             phone |-> ToSql(contact.phone),
             company |-> ToSql(contact.company),
             last_synced |-> clock])
     ELSE [table EXCEPT ![k] =
             [@ EXCEPT !.name = ToSql(contact.name), !.phone = ToSql(contact.phone),
                       !.company = ToSql(contact.company), !.last_synced = clock]]

\* ------------------------------------------------------------ performSync
\* The invocation state before the first performSync.
SyncLocals ==
  /\ pc = "idle"
  /\ runs = 0
  /\ passed = 0
  /\ runUser = 0
  /\ syncLog = 0
  /\ termRow = 0
  /\ sfFetch = "idle"
  /\ hsFetch = "idle"
  /\ salesforceContacts = <<>>
  /\ hubspotContacts = <<>>
  /\ processedContacts = <<>>
  /\ conflicts = <<>>
  /\ storeIdx = 1
  /\ upserts = 0
  /\ fetchFailed = "none"
  /\ fetchStatus = EMPTY
  /\ error = EMPTY
  /\ outcome = "none"
  /\ result = EMPTY

\* The database and the invocation state before the first performSync.
SyncInit ==
  /\ sync_logs = <<>>
  /\ contacts = <<>>
  /\ contactsKeyed \in BOOLEAN
  /\ clock = 1
  /\ SyncLocals

\* The locals of a fresh invocation.
FreshRun(userId) ==
  /\ runs' = runs + 1
  /\ runUser' = userId
  /\ termRow' = 0
  /\ salesforceContacts' = <<>>
  /\ hubspotContacts' = <<>>
  /\ processedContacts' = <<>>
  /\ conflicts' = <<>>
  /\ storeIdx' = 1
  /\ upserts' = 0
  /\ fetchFailed' = "none"
  /\ fetchStatus' = EMPTY
  /\ error' = EMPTY

\* performSync(userId) up to the await of Promise.all: the credential guard,
\* the 'running' row, and the start of both fetches.
performSync_Start(userId) ==
  /\ UNCHANGED <<engineVars, historyVars>>
  /\ pc \in {"idle", "done"}
  /\ runs < MaxRuns
  /\ FreshRun(userId)
  /\ IF ~CredentialsOk(userId)
     THEN /\ pc' = "done"
          /\ outcome' = "thrown"
          /\ result' = NotConnectedError
          /\ syncLog' = 0
          /\ sfFetch' = "idle"
          /\ hsFetch' = "idle"
          /\ UNCHANGED <<sync_logs, clock, passed>>
     ELSE /\ sync_logs' = Append(sync_logs, createSyncLog(userId, "running", 0, 0, NULL))
          /\ syncLog' = Len(sync_logs) + 1
          /\ clock' = clock + 1
          /\ passed' = passed + 1
          /\ pc' = "fetch"
          /\ sfFetch' = "pending"
          /\ hsFetch' = "pending"
          /\ outcome' = "none"
          /\ result' = EMPTY
  /\ UNCHANGED <<contacts, contactsKeyed>>

\* fetchSalesforceContacts resolves with the normalised records.
performSync_SalesforceFetched(sfRaw) ==
  /\ UNCHANGED <<engineVars, historyVars>>
  /\ pc = "fetch"
  /\ sfFetch = "pending"
  /\ sfFetch' = "ok"
  /\ salesforceContacts' = [i \in DOMAIN sfRaw |-> NormalizeSalesforce(sfRaw[i])]
  /\ UNCHANGED <<sync_logs, contacts, contactsKeyed, clock, pc, runs, passed, runUser,
                 syncLog, termRow, hsFetch, hubspotContacts, processedContacts,
                 conflicts, storeIdx, upserts, fetchFailed, fetchStatus, error,
                 outcome, result>>

\* fetchHubSpotContacts resolves with the normalised records.
performSync_HubSpotFetched(hsRaw) ==
  /\ UNCHANGED <<engineVars, historyVars>>
  /\ pc = "fetch"
  /\ hsFetch = "pending"
  /\ hsFetch' = "ok"
  /\ hubspotContacts' = [i \in DOMAIN hsRaw |-> NormalizeHubSpot(hsRaw[i])]
  /\ UNCHANGED <<sync_logs, contacts, contactsKeyed, clock, pc, runs, passed, runUser,
                 syncLog, termRow, sfFetch, salesforceContacts, processedContacts,
                 conflicts, storeIdx, upserts, fetchFailed, fetchStatus, error,
                 outcome, result>>

\* A join that proceeds as soon as one of the fetches has resolved.
Joined_Either == sfFetch = "ok" \/ hsFetch = "ok"

\* Promise.all resolves: both fetches have.
Joined == sfFetch = "ok" /\ hsFetch = "ok"

\* After the join: the reconciliation loop (synchronous).
performSync_Reconcile ==
  /\ UNCHANGED <<engineVars, historyVars>>
  /\ pc = "fetch"
  /\ Joined
  /\ processedContacts' = ProcessedContacts(runUser, salesforceContacts, hubspotContacts)
  /\ conflicts' = Conflicts(salesforceContacts, hubspotContacts)
  /\ storeIdx' = 1
  /\ pc' = "store"
  /\ UNCHANGED <<sync_logs, contacts, contactsKeyed, clock, runs, passed, runUser,
                 syncLog, termRow, sfFetch, hsFetch, salesforceContacts,
                 hubspotContacts, upserts, fetchFailed, fetchStatus, error, outcome,
                 result>>

\* One of the fetches rejects (!response.ok): Promise.all rejects with its
\* error, whatever the state of the other fetch, the destructuring never
\* assigns the two lists, and control passes to the catch block.
performSync_FetchFailed(source, status) ==
  /\ UNCHANGED <<engineVars, historyVars>>
  /\ pc = "fetch"
  /\ IF source = "salesforce"
     THEN sfFetch = "pending" /\ sfFetch' = "failed" /\ UNCHANGED hsFetch
     ELSE hsFetch = "pending" /\ hsFetch' = "failed" /\ UNCHANGED sfFetch
  /\ fetchFailed' = source
  /\ fetchStatus' = status
  /\ error' = IF source = "salesforce" THEN SalesforceApiError(status)
                                       ELSE HubSpotApiError(status)
  /\ pc' = "catch"
  /\ salesforceContacts' = <<>>
  /\ hubspotContacts' = <<>>
  /\ UNCHANGED <<sync_logs, contacts, contactsKeyed, clock, runs, passed, runUser,
                 syncLog, termRow, processedContacts, conflicts, storeIdx, upserts,
                 outcome, result>>

\* One iteration of the storing loop: the upsert is applied. Without the
\* unique key the statement is rejected (see performSync_StoreFailed).
performSync_Store ==
  /\ UNCHANGED <<engineVars, historyVars>>
  /\ pc = "store"
  /\ storeIdx <= Len(processedContacts)
  /\ contactsKeyed
  /\ contacts' = Upsert(contacts, processedContacts[storeIdx])
  /\ clock' = clock + 1
  /\ storeIdx' = storeIdx + 1
  /\ upserts' = upserts + 1
  /\ UNCHANGED <<sync_logs, contactsKeyed, pc, runs, passed, runUser, syncLog, termRow,
                 sfFetch, hsFetch, salesforceContacts, hubspotContacts,
                 processedContacts, conflicts, fetchFailed, fetchStatus, error, outcome,
                 result>>

\* One iteration of the storing loop: pool.query rejects.
performSync_StoreFailed ==
  /\ UNCHANGED <<engineVars, historyVars>>
  /\ pc = "store"
  /\ storeIdx <= Len(processedContacts)
  /\ error' = DatabaseError
  /\ pc' = "catch"
  /\ UNCHANGED <<sync_logs, contacts, contactsKeyed, clock, runs, passed, runUser,
                 syncLog, termRow, sfFetch, hsFetch, salesforceContacts,
                 hubspotContacts, processedContacts, conflicts, storeIdx, upserts,
                 fetchFailed, fetchStatus, outcome, result>>

\* An UPDATE whose WHERE clause names the row before the run's own.
UpdateTarget_Previous == IF syncLog > 1 THEN syncLog - 1 ELSE syncLog

\* WHERE id = $4, with syncLog.id.
UpdateTarget == syncLog

\* After the loop: the UPDATE of the run's row, and the return.
performSync_Complete ==
  /\ UNCHANGED <<engineVars, historyVars>>
  /\ pc = "store"
  /\ storeIdx > Len(processedContacts)
  /\ sync_logs' = [sync_logs EXCEPT ![UpdateTarget] =
                     CompleteRow(@, Len(processedContacts), Len(conflicts))]
  /\ termRow' = UpdateTarget
  /\ clock' = clock + 1
  /\ outcome' = "returned"
  /\ result' = <<"success">>
  /\ pc' = "done"
  /\ UNCHANGED <<contacts, contactsKeyed, runs, passed, runUser, syncLog, sfFetch,
                 hsFetch, salesforceContacts, hubspotContacts, processedContacts,
                 conflicts, storeIdx, upserts, fetchFailed, fetchStatus, error>>

\* The catch block: createSyncLog(userId, 'error', 0, 0, error.message), then
\* throw error.
performSync_Catch ==
  /\ UNCHANGED <<engineVars, historyVars>>
  /\ pc = "catch"
  /\ sync_logs' = Append(sync_logs, CatchRow(runUser, error))
  /\ termRow' = Len(sync_logs) + 1
  /\ clock' = clock + 1
  /\ outcome' = "thrown"
  /\ result' = error
  /\ pc' = "done"
  /\ UNCHANGED <<contacts, contactsKeyed, runs, passed, runUser, syncLog, sfFetch,
                 hsFetch, salesforceContacts, hubspotContacts, processedContacts,
                 conflicts, storeIdx, upserts, fetchFailed, fetchStatus, error>>

\* ------------------------------------------------- RealSyncEngine inputs
\* Raw records as getSalesforceContacts returns them. Its query selects
\* WHERE Email != null, so every record carries an email.
EngineRecords ==
  << [Id |-> <<"sf1">>, FirstName |-> <<"A">>, LastName |-> <<"L">>, Email |-> E1,
      Phone |-> <<"5">>, AccountName |-> <<"X">>],
     [Id |-> <<"sf2">>, FirstName |-> <<"B">>, LastName |-> NULL, Email |-> E2,
      Phone |-> NULL, AccountName |-> UNDEFINED],
     [Id |-> <<"sf4">>, FirstName |-> <<"C">>, LastName |-> <<"E">>, Email |-> EEdge,
      Phone |-> NULL, AccountName |-> <<"Edge">>] >>

\* n records that repeat the fields of base, each with an Id of its own.
Cycle(base, n) ==
  [i \in 1..n |-> [base[((i - 1) % Len(base)) + 1] EXCEPT !.Id = <<"sf", ToString(i)>>]]

\* The orgs explored: up to MaxContacts records that repeat one or two of
\* EngineRecords.
Orgs ==
  LET kinds == 1..Len(EngineRecords)
      bases == { <<EngineRecords[k]>> : k \in kinds }
               \cup { <<EngineRecords[p[1]], EngineRecords[p[2]]>> :
                        p \in { q \in kinds \X kinds : q[1] < q[2] } }
  IN { Cycle(base, n) : base \in bases, n \in 0..MaxContacts }

\* What HubSpot holds before the first request.
Sinks == SUBSET {E1, E2}

Sessions ==
  [salesforceToken : {UNDEFINED, <<"sf-token">>},
   hubspotToken : {UNDEFINED, <<"hs-token">>}]

\* The requests explored; they are served one after the other.
Requests == {1, 2}

Min(a, b) == IF a < b THEN a ELSE b

\* s.slice(0, n)
Slice(s, n) == SubSeq(s, 1, Min(n, Len(s)))

\* String.prototype.includes, at the granularity of the tokens of an email.
Includes(s, part) == \E i \in DOMAIN s : s[i] = part

ExcludedDomains == {"edge.com", "burlington.com", "pyramid.net", "dickenson.com"}

\* The filter of real_sample_contacts.
SampleFilter(contact) ==
  /\ Truthy(contact.Email)
  /\ \A d \in ExcludedDomains : ~Includes(contact.Email, d)

\* One element of real_sample_contacts.
Sample(c) ==
  [name |-> Trim(OrElse(c.FirstName, EMPTY) \o <<" ">> \o OrElse(c.LastName, EMPTY)),
   email |-> c.Email,
   company |-> OrElse(c.AccountName, <<"No Company">>),
   phone |-> OrElse(c.Phone, EMPTY),
   status |-> "from_salesforce",
   sync_status |-> UNDEFINED]

\* real_sample_contacts: filtered.slice(0, 5).map(...)
SampleContacts(sfContacts) ==
  LET filtered == SelectSeq(sfContacts, SampleFilter)
      shown == Slice(filtered, SampleLimit)
  IN [i \in DOMAIN shown |-> Sample(shown[i])]

\* syncResults as first built (lines 414-443).
InitialResults(sfContacts) ==
  [salesforce_contacts_found |-> Len(sfContacts),
   real_sample_contacts |-> SampleContacts(sfContacts),
   hubspot_sync_attempted |-> FALSE,
   hubspot_created |-> 0,
   hubspot_updated |-> 0,
   message |-> "Salesforce data loaded successfully"]

\* syncResults after the write loop (lines 490-499).
FinalResults(results, created, updated) ==
  [results EXCEPT
     !.hubspot_sync_attempted = TRUE,
     !.hubspot_created = created,
     !.hubspot_updated = updated,
     !.message = "REAL sync complete",
     !.real_sample_contacts =
        [i \in DOMAIN @ |-> [@[i] EXCEPT !.sync_status = <<"synced_to_hubspot">>]]]

\* Id of the HubSpot record with this email.
SinkId(email) == <<"hs:">> \o email

\* How the search request of findContactByEmail can end.
LookupOutcomes == {"ok", "transport error", "non-2xx", "unparsable body"}

\* findContactByEmail: the id of the first result; null when there is none
\* or when the call fails (the catch block, or an error body without results).
findContactByEmail(email, answer) ==
  IF answer = "ok" /\ email \in sink THEN SinkId(email) ELSE NULL

\* A guard that takes every request for connected to HubSpot.
HubSpotConnected_Always(hubspotToken) == TRUE

\* if (this.hubspotToken)
HubSpotConnected(hubspotToken) == Truthy(hubspotToken)

\* A write loop over every fetched contact.
WriteBatch_All(sfContacts) == sfContacts

\* The contacts the write loop iterates over.
WriteBatch(sfContacts) == Slice(sfContacts, WriteLimit)

\* A branch that never takes the lookup's record for existing.
Existing_Never(run) == FALSE

\* if (existing)
Existing(run) == run.existing # NULL

\* Top of the for loop at run.idx: a contact without Email is passed over;
\* for the next contact with one, findContactByEmail is called and awaited.
\* Past the last contact of the batch the run stays at the end of the loop.
RECURSIVE LoopHead(_)
LoopHead(run) ==
  IF run.pc # "loop" \/ run.idx > Len(WriteBatch(run.salesforceContacts))
  THEN run
  ELSE IF ~Truthy(WriteBatch(run.salesforceContacts)[run.idx].Email)
       THEN LoopHead([run EXCEPT !.idx = @ + 1])
       ELSE [run EXCEPT !.pc = "lookup",
                        !.lookups = @ + 1,
                        !.lookedUp = @ \cup {run.idx},
                        !.inFlight = @ \cup {[op |-> "lookup", idx |-> run.idx]}]

\* A success path that counts every write as a creation.
Counted_AsCreated(run, isUpdate) ==
  [run EXCEPT !.created = @ + 1, !.idx = @ + 1, !.pc = "loop"]

\* The write resolved: updated++ or created++, and on to the next contact.
Counted(run, isUpdate) ==
  IF isUpdate
  THEN [run EXCEPT !.updated = @ + 1, !.idx = @ + 1, !.pc = "loop"]
  ELSE [run EXCEPT !.created = @ + 1, !.idx = @ + 1, !.pc = "loop"]

\* A catch block that rethrows: the run ends with the contact's error.
Caught_Rethrow(run) ==
  [run EXCEPT !.failed = @ \cup {run.idx}, !.pc = "done", !.outcome = "thrown",
              !.response = "500"]

\* A catch block that tries the same contact again.
Caught_Retry(run) ==
  [run EXCEPT !.failed = @ \cup {run.idx}, !.pc = "loop"]

\* A catch block that counts the failed write as a creation.
Caught_Counted(run) ==
  [run EXCEPT !.failed = @ \cup {run.idx}, !.created = @ + 1, !.idx = @ + 1,
              !.pc = "loop"]

\* catch (contactError): the failure is logged and the loop goes on.
Caught(run) ==
  [run EXCEPT !.failed = @ \cup {run.idx}, !.idx = @ + 1, !.pc = "loop"]

\* The call record of the write for the current contact.
WriteCall(run) ==
  [op |-> IF Existing(run) THEN "update" ELSE "create", idx |-> run.idx]

\* A write that is started and not awaited: the loop goes on at once.
CallIssued_NotAwaited(run, now) ==
  LoopHead(Counted(
    [run EXCEPT
       !.written = @ \cup {run.idx},
       !.writeCalls = @ + 1,
       !.creates = IF Existing(run) THEN @ ELSE @ \cup {run.idx},
       !.updates = IF Existing(run)
                   THEN @ \cup {[idx |-> run.idx, id |-> run.existing]} ELSE @,
       !.gaps = IF run.lastWriteAt >= 0 THEN @ \cup {now - run.lastWriteAt} ELSE @,
       !.lastWriteAt = now,
       !.inFlight = @ \cup {WriteCall(run)}],
    Existing(run)))

\* The create/update call of the current contact is issued at time now and
\* awaited; the time since the previous such call of the run is recorded in
\* gaps.
CallIssued(run, now) ==
  [run EXCEPT
     !.written = @ \cup {run.idx},
     !.writeCalls = @ + 1,
     !.creates = IF Existing(run) THEN @ ELSE @ \cup {run.idx},
     !.updates = IF Existing(run)
                 THEN @ \cup {[idx |-> run.idx, id |-> run.existing]} ELSE @,
     !.gaps = IF run.lastWriteAt >= 0 THEN @ \cup {now - run.lastWriteAt} ELSE @,
     !.lastWriteAt = now,
     !.inFlight = @ \cup {WriteCall(run)},
     !.pc = "write"]

\* A lookup whose failure reaches the catch block of the loop.
LookupResolved_Throws(run, existing, answer) ==
  IF answer # "ok"
  THEN Caught([run EXCEPT !.lookupFailed = @ \cup {run.idx},
                          !.inFlight = @ \ {[op |-> "lookup", idx |-> run.idx]}])
  ELSE [run EXCEPT
          !.existing = existing,
          !.found = IF existing # NULL THEN @ \cup {run.idx} ELSE @,
          !.inFlight = @ \ {[op |-> "lookup", idx |-> run.idx]}]

\* The awaited findContactByEmail has resolved, with null when it failed.
LookupResolved(run, existing, answer) ==
  [run EXCEPT
     !.existing = existing,
     !.found = IF existing # NULL THEN @ \cup {run.idx} ELSE @,
     !.lookupFailed = IF answer # "ok" THEN @ \cup {run.idx} ELSE @,
     !.inFlight = @ \ {[op |-> "lookup", idx |-> run.idx]}]

\* State of a run that has not been requested.
IdleRun ==
  [pc |-> "idle",
   salesforceContacts |-> <<>>,
   idx |-> 1,
   existing |-> NULL,
   created |-> 0,
   updated |-> 0,
   lookups |-> 0,
   writeCalls |-> 0,
   fetches |-> 0,
   inFlight |-> {},
   lookedUp |-> {},
   lookupFailed |-> {},
   found |-> {},
   written |-> {},
   creates |-> {},
   updates |-> {},
   failed |-> {},
   lastWriteAt |-> -1,
   gaps |-> {},
   syncResults |-> InitialResults(<<>>),
   outcome |-> "none",
   response |-> "none"]

EngineIdle ==
  /\ session = [salesforceToken |-> UNDEFINED, hubspotToken |-> UNDEFINED]
  /\ org = <<>>
  /\ sink = {}
  /\ engClock = 0
  /\ failures = 0
  /\ eng = [r \in Requests |-> IdleRun]

EngineInit ==
  /\ session \in Sessions
  /\ org \in Orgs
  /\ sink \in Sinks
  /\ engClock = 0
  /\ failures = 0
  /\ eng = [r \in Requests |-> IdleRun]

\* ------------------------------------------- POST /api/sync/contacts
\* Request r arrives when the requests before it have been answered.
Sequential(r) == \A q \in Requests : q < r => eng[q].pc = "done"

\* The route up to the engine: requireAuth has passed; without a Salesforce
\* token the request is answered 400, with one the engine is constructed and
\* getSalesforceContacts is called.
Post(r) ==
  /\ eng[r].pc = "idle"
  /\ IF ~Truthy(session.salesforceToken)
     THEN eng' = [eng EXCEPT ![r].pc = "done", ![r].outcome = "rejected",
                             ![r].response = "400"]
     ELSE eng' = [eng EXCEPT ![r].pc = "fetch", ![r].fetches = @ + 1]
  /\ UNCHANGED <<session, org, sink, engClock, failures>>
  /\ UNCHANGED <<syncVars, historyVars>>

\* getSalesforceContacts resolves; syncResults is built. Without a HubSpot
\* token the engine returns it at once; with one the write loop is entered.
Engine_Fetched(r) ==
  /\ eng[r].pc = "fetch"
  /\ LET hubspotToken == OrElse(session.hubspotToken, NULL)
         fetched == [eng[r] EXCEPT !.salesforceContacts = org,
                                   !.syncResults = InitialResults(org)]
     IN IF HubSpotConnected(hubspotToken)
        THEN eng' = [eng EXCEPT ![r] = LoopHead([fetched EXCEPT !.pc = "loop", !.idx = 1])]
        ELSE eng' = [eng EXCEPT ![r] = [fetched EXCEPT !.pc = "done",
                                                       !.outcome = "returned",
                                                       !.response = "200"]]
  /\ UNCHANGED <<session, org, sink, engClock, failures>>
  /\ UNCHANGED <<syncVars, historyVars>>

\* getSalesforceContacts rejects: the engine rethrows, the route answers 500.
Engine_FetchFailed(r) ==
  /\ eng[r].pc = "fetch"
  /\ eng' = [eng EXCEPT ![r].pc = "done", ![r].outcome = "thrown",
                        ![r].response = "500"]
  /\ UNCHANGED <<session, org, sink, engClock, failures>>
  /\ UNCHANGED <<syncVars, historyVars>>

\* The lookup of one iteration is answered; updateContact is then called
\* when it found a record, createContact otherwise. A lookup that throws
\* would pass the contact to the catch block.
Engine_Lookup(r) ==
  /\ eng[r].pc = "lookup"
  /\ LET contact == WriteBatch(eng[r].salesforceContacts)[eng[r].idx]
     IN \E answer \in LookupOutcomes :
          /\ answer # "ok" => failures < MaxFailures
          /\ failures' = IF answer # "ok" THEN failures + 1 ELSE failures
          /\ LET resolved == LookupResolved(eng[r],
                               findContactByEmail(contact.Email, answer), answer)
             IN eng' = [eng EXCEPT ![r] =
                          IF resolved.pc = "lookup"
                          THEN CallIssued(resolved, engClock)
                          ELSE LoopHead(resolved)]
  /\ UNCHANGED <<session, org, sink, engClock>>
  /\ UNCHANGED <<syncVars, historyVars>>

\* The write of one iteration is answered: the counter and the pause on
\* success, the catch block when it threw; then the next iteration.
\* HubSpot answers 409 to the creation of a contact whose email it holds.
Engine_Write(r) ==
  /\ eng[r].pc = "write"
  /\ LET contact == WriteBatch(eng[r].salesforceContacts)[eng[r].idx]
         isUpdate == Existing(eng[r])
         answered == [eng[r] EXCEPT !.inFlight = @ \ {WriteCall(eng[r])}]
     IN \E fails \in BOOLEAN :
          /\ fails => failures < MaxFailures
          /\ LET ok == ~fails /\ (isUpdate \/ contact.Email \notin sink)
             IN IF ok
                THEN /\ eng' = [eng EXCEPT ![r] = LoopHead(Counted(answered, isUpdate))]
                     /\ sink' = IF isUpdate THEN sink ELSE sink \cup {contact.Email}
                     /\ engClock' = engClock + SleepMs
                     /\ UNCHANGED failures
                ELSE /\ eng' = [eng EXCEPT ![r] = LoopHead(Caught(answered))]
                     /\ failures' = IF fails THEN failures + 1 ELSE failures
                     /\ UNCHANGED <<sink, engClock>>
  /\ UNCHANGED <<session, org>>
  /\ UNCHANGED <<syncVars, historyVars>>

\* After the loop: the counts and the sample marks are put into syncResults,
\* which is returned; the route answers 200.
Engine_Return(r) ==
  /\ eng[r].pc = "loop"
  /\ eng' = [eng EXCEPT
               ![r].syncResults = FinalResults(@, eng[r].created, eng[r].updated),
               ![r].outcome = "returned",
               ![r].response = "200",
               ![r].pc = "done"]
  /\ UNCHANGED <<session, org, sink, engClock, failures>>
  /\ UNCHANGED <<syncVars, historyVars>>


\* ------------------------------------------------------- run log history
\* No history has been asked for.
HistoryIdle == history = <<>> /\ historyUser = 0

\* Users that own rows of the run log.
LogUsers == {1, 2}

\* The k-th row of a log: inserted by createSyncLog at time at, and left
\* 'running', completed, or inserted by the catch block.
LogRow(userId, at, k) ==
  [user_id |-> userId,
   status |-> IF k % 3 = 0 THEN "success" ELSE IF k % 3 = 1 THEN "error" ELSE "running",
   contacts_processed |-> 0,
   conflicts |-> 0,
   error_message |-> IF k % 3 = 1 THEN DatabaseError ELSE NULL,
   started_at |-> at,
   completed_at |-> IF k % 3 = 0 THEN at + 1 ELSE 0]

\* The run logs of n rows explored: rows in id order, of any owners,
\* started_at rising with the id, either row by row or in steps of two rows
\* (two rows inserted at the same instant).
HistoryLogs(n) ==
  { [k \in 1..n |-> LogRow(owner[k], IF coarse THEN (k + 1) \div 2 ELSE k, k)] :
      owner \in [1..n -> LogUsers], coarse \in BOOLEAN }

\* The ids in ORDER BY started_at DESC; rows with equal started_at come in
\* either id order, as the database pleases.
RECURSIVE OrderByStartedAtDesc(_, _, _)
OrderByStartedAtDesc(table, ids, highIdFirst) ==
  IF ids = {} THEN <<>>
  ELSE LET first == CHOOSE k \in ids :
                      \A j \in ids :
                        \/ table[k].started_at > table[j].started_at
                        \/ /\ table[k].started_at = table[j].started_at
                           /\ IF highIdFirst THEN k >= j ELSE k <= j
       IN <<first>> \o OrderByStartedAtDesc(table, ids \ {first}, highIdFirst)

\* A row as SELECT * returns it.
SelectedRow(table, k) ==
  [id |-> k,
   user_id |-> table[k].user_id,
   status |-> table[k].status,
   contacts_processed |-> table[k].contacts_processed,
   conflicts |-> table[k].conflicts,
   error_message |-> table[k].error_message,
   started_at |-> table[k].started_at,
   completed_at |-> table[k].completed_at]

\* A query without ORDER BY: the rows come in id order.
getUserSyncHistory_Unordered(table, userId, highIdFirst) ==
  LET ids == { k \in DOMAIN table : table[k].user_id = userId }
      listed == SelectSeq([k \in DOMAIN table |-> k], LAMBDA k : k \in ids)
  IN [i \in 1..Min(HistoryLimit, Len(listed)) |-> SelectedRow(table, listed[i])]

\* SELECT * FROM sync_logs WHERE user_id = $1 ORDER BY started_at DESC
\* LIMIT 10
getUserSyncHistory(table, userId, highIdFirst) ==
  LET ids == { k \in DOMAIN table : table[k].user_id = userId }
      ordered == OrderByStartedAtDesc(table, ids, highIdFirst)
  IN [i \in 1..Min(HistoryLimit, Len(ordered)) |-> SelectedRow(table, ordered[i])]

\* getUserSyncHistory(userId) is called and returns result.rows.
getUserSyncHistory_Call(userId) ==
  /\ \E highIdFirst \in BOOLEAN :
       history' = getUserSyncHistory(sync_logs, userId, highIdFirst)
  /\ historyUser' = userId
  /\ UNCHANGED <<syncVars, engineVars>>

\* --------------------------------------------------------- specifications
Init == SyncInit /\ EngineIdle /\ HistoryIdle

Next ==
  \/ \E userId \in UserIds : performSync_Start(userId)
  \/ \E sfRaw \in Selections(SalesforceRecords) : performSync_SalesforceFetched(sfRaw)
  \/ \E hsRaw \in Selections(HubSpotRecords) : performSync_HubSpotFetched(hsRaw)
  \/ performSync_Reconcile
  \/ \E source \in {"salesforce", "hubspot"}, status \in HttpErrors :
       performSync_FetchFailed(source, status)
  \/ performSync_Store
  \/ performSync_StoreFailed
  \/ performSync_Complete
  \/ performSync_Catch
  \/ (pc = "done" /\ runs = MaxRuns) /\ \E r \in Requests : Sequential(r) /\ Post(r)

\* performSync, followed by requests to the route from a session that holds
\* no token. performSync and the route share no state, so the requests are
\* taken after the last invocation.
Spec == Init /\ [][Next]_vars

InitEnterprise == SyncInit /\ contactsKeyed /\ EngineInit /\ HistoryIdle

NextEnterprise ==
  \/ \E r \in Requests : Sequential(r) /\ Post(r)
  \/ \E r \in Requests : Engine_Fetched(r)
  \/ \E r \in Requests : Engine_FetchFailed(r)
  \/ \E r \in Requests : Engine_Lookup(r)
  \/ \E r \in Requests : Engine_Write(r)
  \/ \E r \in Requests : Engine_Return(r)

\* POST /api/sync/contacts alone, one request after the other.
SpecEnterprise == InitEnterprise /\ [][NextEnterprise]_vars

\* Two requests of one session that overlap: a second request may arrive
\* while the first is suspended at an await. HubSpot is empty at the start.
InitConcurrent ==
  /\ SyncInit
  /\ contactsKeyed
  /\ session \in Sessions
  /\ org \in { o \in Orgs : Len(o) <= MaxConcurrentContacts }
  /\ sink = {}
  /\ engClock = 0
  /\ failures = 0
  /\ eng = [r \in Requests |-> IdleRun]
  /\ HistoryIdle

NextConcurrent ==
  \/ \E r \in Requests : Post(r)
  \/ \E r \in Requests : Engine_Fetched(r)
  \/ \E r \in Requests : Engine_FetchFailed(r)
  \/ \E r \in Requests : Engine_Lookup(r)
  \/ \E r \in Requests : Engine_Write(r)
  \/ \E r \in Requests : Engine_Return(r)

SpecConcurrent == InitConcurrent /\ [][NextConcurrent]_vars

\* getUserSyncHistory over run logs of up to MaxLogRows rows.
InitHistory ==
  /\ \E n \in 0..MaxLogRows : sync_logs \in HistoryLogs(n)
  /\ contacts = <<>>
  /\ contactsKeyed = TRUE
  /\ clock = Len(sync_logs) + 2
  /\ SyncLocals
  /\ EngineIdle
  /\ HistoryIdle

NextHistory == \E userId \in UserIds : getUserSyncHistory_Call(userId)

SpecHistory == InitHistory /\ [][NextHistory]_vars

\* ------------------------------------------------------------------ claims
Terminal == {"success", "error"}

\* The message of the error a failed fetch throws.
FetchErrorMessage ==
  IF fetchFailed = "salesforce" THEN <<"Salesforce API error: ">> \o fetchStatus
                                ELSE <<"HubSpot API error: ">> \o fetchStatus

\* C1 (as claimed): when an invocation of performSync that created a
\* 'running' row has returned or thrown, that same row has a terminal status.
C1_RunningRowBecomesTerminal ==
  (pc = "done" /\ syncLog # 0) => sync_logs[syncLog].status \in Terminal

\* C2 (as claimed): when no invocation is in progress, sync_logs holds exactly
\* one row per invocation that passed the credential check.
C2_OneRowPerRun ==
  pc \in {"idle", "done"} => Len(sync_logs) = passed

\* C3: after an invocation in which a source fetch failed, the row the run
\* left last has status 'error', contacts_processed 0, conflicts 0 and the
\* message of the fetch error; the run stored no contact and threw that error.
C3_FetchFailureLoggedAndRethrown ==
  (pc = "done" /\ fetchFailed # "none") =>
    /\ sync_logs # <<>>
    /\ termRow = Len(sync_logs)
    /\ LET row == sync_logs[termRow]
       IN /\ row.user_id = runUser
          /\ row.status = "error"
          /\ row.contacts_processed = 0
          /\ row.conflicts = 0
          /\ row.error_message = FetchErrorMessage
    /\ upserts = 0
    /\ processedContacts = <<>>
    /\ outcome = "thrown"
    /\ result = FetchErrorMessage

\* C3 witness: an invocation has ended after its HubSpot fetch failed, and an
\* earlier invocation had succeeded.
C3_Witness ==
  /\ pc = "done"
  /\ fetchFailed = "hubspot"
  /\ \E i \in DOMAIN sync_logs : sync_logs[i].status = "success"

\* C4 (as claimed): the contacts_processed of the run's terminal row equals
\* the number of upserts the run applied to contacts.
C4_ProcessedEqualsStored ==
  (pc = "done" /\ termRow # 0) => sync_logs[termRow].contacts_processed = upserts

\* C5 (as claimed): a run of the engine that has returned or thrown has its
\* terminal status in the run log.
C5_TerminalStatePersisted ==
  \A r \in Requests :
    eng[r].outcome \in {"returned", "thrown"} =>
      \E i \in DOMAIN sync_logs :
        sync_logs[i].status = IF eng[r].outcome = "returned" THEN "success" ELSE "error"

\* C6: once a create/update call of a run has failed, the run does not throw,
\* and when it has ended it has returned and has looked up and written every
\* later contact of the first WriteLimit that has an email.
C6_WriteFailureDoesNotAbort ==
  \A r \in Requests :
    \A i \in eng[r].failed :
      /\ eng[r].outcome # "thrown"
      /\ eng[r].pc = "done" =>
           /\ eng[r].outcome = "returned"
           /\ \A j \in (i + 1)..Min(WriteLimit, Len(eng[r].salesforceContacts)) :
                Truthy(eng[r].salesforceContacts[j].Email) =>
                  j \in eng[r].lookedUp /\ j \in eng[r].written

\* C6 witness: a run has returned with a failed write followed by a later
\* write that succeeded.
C6_Witness ==
  \E r \in Requests :
    /\ eng[r].pc = "done"
    /\ eng[r].outcome = "returned"
    /\ \E i \in eng[r].failed :
         \E j \in eng[r].written \ eng[r].failed : j > i

\* C7: a run issues at most 10 create/update calls.
C7_AtMostTenWrites ==
  \A r \in Requests : eng[r].writeCalls <= 10

\* C7 witness: a run over more than 10 contacts has ended with 10 calls
\* issued, one of which failed.
C7_Witness ==
  \E r \in Requests :
    /\ eng[r].pc = "done"
    /\ Len(eng[r].salesforceContacts) > 10
    /\ eng[r].writeCalls = 10
    /\ eng[r].failed # {}

\* C8 (as claimed): at least 200 ms of pause lie between any two consecutive
\* create/update calls of a run.
C8_PauseBetweenWrites ==
  \A r \in Requests : \A gap \in eng[r].gaps : gap >= 200

\* Number of contacts that have an email outside the excluded domains.
Eligible(sfContacts) ==
  Cardinality({ i \in DOMAIN sfContacts :
                  /\ sfContacts[i].Email \notin {NULL, UNDEFINED, EMPTY}
                  /\ \A k \in DOMAIN sfContacts[i].Email :
                       sfContacts[i].Email[k] \notin ExcludedDomains })

SinkAnsweredExisting(r) ==
  /\ eng[r].pc = "done"
  /\ eng[r].outcome = "returned"
  /\ eng[r].syncResults.hubspot_sync_attempted
  /\ eng[r].found = eng[r].lookedUp
  /\ eng[r].failed = {}

\* C10: two runs in a row over the same contacts, in each of which every
\* lookup returned a record and every update succeeded, report the same
\* hubspot_updated, and the second reports hubspot_created = 0.
C10_SecondRunSameUpdates ==
  (SinkAnsweredExisting(1) /\ SinkAnsweredExisting(2)
     /\ eng[1].salesforceContacts = eng[2].salesforceContacts) =>
    /\ eng[2].syncResults.hubspot_updated = eng[1].syncResults.hubspot_updated
    /\ eng[2].syncResults.hubspot_created = 0

\* C10 witness: two such runs have ended, each with 10 updates.
C10_Witness ==
  /\ SinkAnsweredExisting(1)
  /\ SinkAnsweredExisting(2)
  /\ eng[1].salesforceContacts = eng[2].salesforceContacts
  /\ eng[2].syncResults.hubspot_updated = 10


\* ------------------------------------------------- reconciliation claims
\* A value that stands for "no value": null, undefined or the empty string.
Absent(v) == v \in {NULL, UNDEFINED, EMPTY}

SameValue(a, b) == a = b \/ (Absent(a) /\ Absent(b))

CompareFields == {"name", "phone", "company"}

DifferingFields(a, b) == { f \in CompareFields : a[f] # b[f] }

\* The reconciliation loop of the current run has run.
Reconciled == pc \in {"store", "catch", "done"} /\ sfFetch = "ok" /\ hsFetch = "ok"

\* Index of the first HubSpot contact with the email of Salesforce contact i,
\* 0 when there is none.
FirstMatch(i) ==
  LET hits == { j \in DOMAIN hubspotContacts :
                  hubspotContacts[j].email = salesforceContacts[i].email }
  IN IF hits = {} THEN 0 ELSE CHOOSE j \in hits : \A k \in hits : j <= k

\* C11: no conflict is recorded for a pair with equal email whose name, phone
\* and company are equal, a field absent on both sides counting as equal.
C11_EqualPairNoConflict ==
  \A k \in DOMAIN conflicts :
    \E f \in CompareFields :
      ~SameValue(conflicts[k].salesforce[f], conflicts[k].hubspot[f])

C13_OnlyInPrimary ==
  (Reconciled /\ Len(salesforceContacts) = 1 /\ hubspotContacts = <<>>) =>
    /\ Len(processedContacts) = 1
    /\ processedContacts[1].email = salesforceContacts[1].email
    /\ processedContacts[1].salesforce_id = salesforceContacts[1].id
    /\ ~Truthy(processedContacts[1].hubspot_id)
    /\ conflicts = <<>>

C13_Witness ==
  /\ Reconciled
  /\ Len(salesforceContacts) = 1
  /\ Truthy(salesforceContacts[1].email)
  /\ hubspotContacts = <<>>
  /\ Len(processedContacts) = 1

\* C14: every HubSpot contact whose email matches no Salesforce contact
\* appears in the output of the reconciliation.
C14_OnlyInSecondaryReported ==
  Reconciled =>
    \A j \in DOMAIN hubspotContacts :
      (\A i \in DOMAIN salesforceContacts :
         salesforceContacts[i].email # hubspotContacts[j].email) =>
        \/ \E k \in DOMAIN processedContacts :
             processedContacts[k].hubspot_id = hubspotContacts[j].id
        \/ \E k \in DOMAIN conflicts : conflicts[k].hubspot = hubspotContacts[j]

\* C15: a record without an email is never matched, processed or stored.
C15_NoEmailNeverTakesPart ==
  /\ \A k \in DOMAIN processedContacts : Truthy(processedContacts[k].email)
  /\ \A k \in DOMAIN contacts : contacts[k].email # NULL


\* C18: the two fetches are started together, the reconciliation and the
\* storing begin only after both have resolved, and a run in which either
\* fetch rejected reconciles and stores nothing.
C18_FetchesJoinedBeforeReconcile ==
  /\ (sfFetch = "idle") <=> (hsFetch = "idle")
  /\ pc = "fetch" => (sfFetch # "idle" /\ hsFetch # "idle")
  /\ (pc = "store" \/ processedContacts # <<>> \/ conflicts # <<>> \/ upserts > 0) =>
       (sfFetch = "ok" /\ hsFetch = "ok")
  /\ ("failed" \in {sfFetch, hsFetch}) =>
       /\ pc \in {"catch", "done"}
       /\ processedContacts = <<>>
       /\ conflicts = <<>>
       /\ storeIdx = 1
       /\ upserts = 0

\* A run whose Salesforce fetch resolved and whose HubSpot fetch rejected.
C18_Witness ==
  /\ pc = "done"
  /\ sfFetch = "ok"
  /\ hsFetch = "failed"
  /\ outcome = "thrown"


\* ------------------------------------------------------ credential claims
\* The user is unknown or lacks one of the two tokens.
MissingCredential(userId) ==
  \/ userId \notin DOMAIN users
  \/ users[userId].salesforce_token \in {NULL, UNDEFINED, EMPTY}
  \/ users[userId].hubspot_token \in {NULL, UNDEFINED, EMPTY}

\* An invocation of performSync begins in this step.
Invoked == runs' = runs + 1

\* Request r reaches the route in this step.
Requested(r) == eng[r].pc = "idle" /\ eng'[r].pc # "idle"

\* C16: an invocation of performSync without the user or one of its tokens,
\* and a request to the route without a Salesforce token in the session, fail
\* before any CRM call is made and leave sync_logs as it was.
C16_MissingCredentialFailsEarly ==
  /\ [][(Invoked /\ MissingCredential(runUser')) =>
          /\ sync_logs' = sync_logs
          /\ contacts' = contacts
          /\ pc' = "done"
          /\ outcome' = "thrown"
          /\ result' = NotConnectedError
          /\ sfFetch' = "idle"
          /\ hsFetch' = "idle"]_vars
  /\ [][\A r \in Requests :
          (Requested(r) /\ session.salesforceToken \in {NULL, UNDEFINED, EMPTY}) =>
            /\ sync_logs' = sync_logs
            /\ contacts' = contacts
            /\ sink' = sink
            /\ eng'[r].pc = "done"
            /\ eng'[r].response = "400"
            /\ eng'[r].fetches = 0
            /\ eng'[r].lookups = 0
            /\ eng'[r].writeCalls = 0
            /\ eng'[r].inFlight = {}]_vars

\* A rejected invocation and a rejected request, with a run on record.
C16_Witness ==
  /\ pc = "done"
  /\ MissingCredential(runUser)
  /\ outcome = "thrown"
  /\ sync_logs # <<>>
  /\ \E r \in Requests : eng[r].response = "400"


\* ------------------------------------------------------- write loop claims
\* Positions of the contacts the write loop of request r visits.
Visited(r) == 1..Min(WriteLimit, Len(eng[r].salesforceContacts))

\* C17: a findContactByEmail that fails (transport error, non-2xx answer,
\* unparsable body) yields null and throws nothing: the loop goes on to write
\* the current contact, as a creation, and handles the remaining contacts.
C17_LookupFailureYieldsNull ==
  \A r \in Requests :
    \A i \in eng[r].lookupFailed :
      /\ i \notin eng[r].found
      /\ i \in eng[r].creates
      /\ eng[r].outcome # "thrown"
      /\ eng[r].pc = "done" =>
           /\ eng[r].response = "200"
           /\ \A j \in Visited(r) :
                (j > i /\ Truthy(eng[r].salesforceContacts[j].Email)) =>
                  (j \in eng[r].lookedUp /\ j \in eng[r].written)

\* A finished run with a failed lookup for a contact the sink holds, and a
\* later contact written.
C17_Witness ==
  \E r \in Requests :
    /\ eng[r].pc = "done"
    /\ \E i \in eng[r].lookupFailed :
         /\ i \in eng[r].failed
         /\ \E j \in eng[r].written : j > i

\* C19: within one run at most one call to the sink (lookup, create or
\* update) is in flight at any time, namely the one the run is awaiting.
C19_OneSinkCallInFlight ==
  \A r \in Requests :
    /\ Cardinality(eng[r].inFlight) <= 1
    /\ eng[r].pc = "lookup" => eng[r].inFlight = {[op |-> "lookup", idx |-> eng[r].idx]}
    /\ eng[r].pc = "write" =>
         \E op \in {"create", "update"} : eng[r].inFlight = {[op |-> op, idx |-> eng[r].idx]}
    /\ eng[r].pc \notin {"lookup", "write"} => eng[r].inFlight = {}

\* The lookup of a later contact is in flight, after writes that returned.
C19_Witness ==
  \E r \in Requests :
    /\ eng[r].pc = "lookup"
    /\ eng[r].idx >= 3
    /\ Cardinality(eng[r].written) >= 2

\* C20: no call is retried: every visited contact gets at most one lookup and
\* at most one create-or-update call, and after a failed write the loop has
\* moved on to a later contact.
C20_NoRetry ==
  \A r \in Requests :
    /\ eng[r].lookups = Cardinality(eng[r].lookedUp)
    /\ eng[r].writeCalls = Cardinality(eng[r].written)
    /\ eng[r].lookedUp \subseteq Visited(r)
    /\ eng[r].written \subseteq eng[r].lookedUp
    /\ \A i \in eng[r].failed :
         /\ eng[r].idx > i
         /\ \A c \in eng[r].inFlight : c.idx > i

\* A finished run with a failed write among several.
C20_Witness ==
  \E r \in Requests :
    /\ eng[r].pc = "done"
    /\ eng[r].failed # {}
    /\ eng[r].failed \subseteq eng[r].written
    /\ eng[r].writeCalls >= 3


\* ------------------------------------------------------ storage claims
\* C21: the contacts table holds at most one row for each (user_id, email).
C21_OneRowPerKey ==
  \A i, j \in DOMAIN contacts :
    (contacts[i].user_id = contacts[j].user_id /\ contacts[i].email = contacts[j].email)
      => i = j

\* C25: a row of sync_logs whose completed_at is set has a terminal status.
C25_CompletedOnlyWhenTerminal ==
  \A k \in DOMAIN sync_logs :
    sync_logs[k].completed_at # 0 => sync_logs[k].status \in {"success", "error"}

\* A completed row beside a row that is still 'running'.
C25_Witness ==
  /\ \E k \in DOMAIN sync_logs : sync_logs[k].completed_at # 0
  /\ \E k \in DOMAIN sync_logs :
       sync_logs[k].status = "running" /\ sync_logs[k].completed_at = 0

\* C29: no step changes or removes a row of sync_logs that is terminal; a row
\* that a step changes was 'running' and is the row the current run created.
C29_TerminalRowsFrozen ==
  [][/\ Len(sync_logs') >= Len(sync_logs)
     /\ \A k \in DOMAIN sync_logs :
          /\ sync_logs[k].status \in {"success", "error"} => sync_logs'[k] = sync_logs[k]
          /\ sync_logs'[k] # sync_logs[k] =>
               /\ sync_logs[k].status = "running"
               /\ k = syncLog
               /\ sync_logs[k].user_id = runUser]_vars

\* A second run has completed its row while earlier rows are terminal.
C29_Witness ==
  /\ runs = 2
  /\ pc = "done"
  /\ outcome = "returned"
  /\ Len(sync_logs) >= 3
  /\ sync_logs[syncLog].status = "success"
  /\ \E k \in 1..(syncLog - 1) : sync_logs[k].status \in {"success", "error"}

\* C30: an upsert that meets an existing row leaves the row's user_id, email,
\* salesforce_id and hubspot_id as they were; no row is ever removed.
C30_IdsKeptOnUpsert ==
  [][/\ Len(contacts') >= Len(contacts)
     /\ \A k \in DOMAIN contacts :
          /\ contacts'[k].user_id = contacts[k].user_id
          /\ contacts'[k].email = contacts[k].email
          /\ contacts'[k].salesforce_id = contacts[k].salesforce_id
          /\ contacts'[k].hubspot_id = contacts[k].hubspot_id]_vars

\* A contact stored without HubSpot id has been stored again by a run that
\* matched it with a HubSpot record, and its row has changed otherwise.
C30_Witness ==
  \E k \in DOMAIN contacts :
    \E i \in 1..(storeIdx - 1) :
      /\ i \in DOMAIN processedContacts
      /\ processedContacts[i].email = contacts[k].email
      /\ processedContacts[i].user_id = contacts[k].user_id
      /\ Truthy(processedContacts[i].hubspot_id)
      /\ contacts[k].hubspot_id = NULL
      /\ contacts[k].phone = ToSql(processedContacts[i].phone)
      /\ contacts[k].last_synced > 2


\* ----------------------------------------------------- write claims
\* The update calls request r issued for position i.
UpdatesAt(r, i) == { u \in eng[r].updates : u.idx = i }

\* C22: for a visited contact, updateContact is called, with the id of the
\* record the lookup returned, exactly when the lookup returned a record, and
\* createContact exactly when it returned none; never both, and no write for
\* a contact without email.
C22_UpdateIffFound ==
  \A r \in Requests :
    /\ eng[r].written = eng[r].creates \cup { u.idx : u \in eng[r].updates }
    /\ Cardinality(eng[r].updates) = Cardinality({ u.idx : u \in eng[r].updates })
    /\ \A u \in eng[r].updates :
         /\ u.idx \in eng[r].found
         /\ u.idx \notin eng[r].creates
         /\ u.id = SinkId(eng[r].salesforceContacts[u.idx].Email)
    /\ \A i \in eng[r].creates : i \notin eng[r].found
    /\ \A i \in eng[r].found :
         i \in eng[r].written \/ (eng[r].pc = "lookup" /\ eng[r].idx = i)
    /\ \A i \in eng[r].written :
         i \in Visited(r) /\ Truthy(eng[r].salesforceContacts[i].Email)
    /\ eng[r].pc = "write" =>
         /\ eng[r].idx \in eng[r].written
         /\ eng[r].idx \in eng[r].found =>
              UpdatesAt(r, eng[r].idx) = {[idx |-> eng[r].idx, id |-> eng[r].existing]}

\* A finished run that created one contact and updated another.
C22_Witness ==
  \E r \in Requests :
    /\ eng[r].pc = "done"
    /\ eng[r].creates # {}
    /\ eng[r].updates # {}
    /\ eng[r].found # {}

\* C23: the summary a run returns counts the fetched contacts, the
\* createContact calls that succeeded and the updateContact calls that
\* succeeded; a failed write is counted in neither.
C23_SummaryCounts ==
  \A r \in Requests :
    (eng[r].pc = "done" /\ eng[r].outcome = "returned") =>
      /\ eng[r].syncResults.salesforce_contacts_found = Len(org)
      /\ eng[r].syncResults.hubspot_created
           = Cardinality(eng[r].creates \ eng[r].failed)
      /\ eng[r].syncResults.hubspot_updated
           = Cardinality({ u.idx : u \in eng[r].updates } \ eng[r].failed)

\* A returned summary of a run with a creation, an update and a failed write.
C23_Witness ==
  \E r \in Requests :
    /\ eng[r].pc = "done"
    /\ eng[r].outcome = "returned"
    /\ eng[r].failed # {}
    /\ eng[r].syncResults.hubspot_created >= 1
    /\ eng[r].syncResults.hubspot_updated >= 1
    /\ eng[r].syncResults.salesforce_contacts_found >= 3

\* C26: every sample contact the summary marks 'synced_to_hubspot' is one of
\* the visited contacts, and its write succeeded in this run.
C26_MarkedSamplesWereWritten ==
  \A r \in Requests :
    (eng[r].pc = "done" /\ eng[r].outcome = "returned") =>
      \A k \in DOMAIN eng[r].syncResults.real_sample_contacts :
        LET sample == eng[r].syncResults.real_sample_contacts[k]
        IN sample.sync_status = <<"synced_to_hubspot">> =>
             \E i \in Visited(r) :
               /\ eng[r].salesforceContacts[i].Email = sample.email
               /\ i \in eng[r].written \ eng[r].failed

\* C27: with every sink call answered truthfully, no email is the subject of
\* a createContact call in two requests.
C27_NoDuplicateCreation ==
  failures = 0 =>
    \A r1, r2 \in Requests :
      r1 # r2 =>
        \A i \in eng[r1].creates, j \in eng[r2].creates :
          eng[r1].salesforceContacts[i].Email # eng[r2].salesforceContacts[j].Email

\* C28: createContact is in flight only for an email the sink does not hold.
C28_CreateOnlyWhenAbsent ==
  \A r \in Requests :
    (eng[r].pc = "write" /\ eng[r].idx \in eng[r].creates) =>
      eng[r].salesforceContacts[eng[r].idx].Email \notin sink


\* ------------------------------------------------------- history claims
\* C24: getUserSyncHistory(userId) returns rows of that user only, at most
\* ten of them (all of them when there are fewer), the newest first, and no
\* row it leaves out is newer than a row it returns.
C24_HistoryNewestTen ==
  historyUser # 0 =>
    LET own == { k \in DOMAIN sync_logs : sync_logs[k].user_id = historyUser }
        shown == { history[i].id : i \in DOMAIN history }
    IN /\ Len(history) <= 10
       /\ Len(history) = Min(10, Cardinality(own))
       /\ Cardinality(shown) = Len(history)
       /\ shown \subseteq own
       /\ \A i \in DOMAIN history :
            /\ history[i].user_id = historyUser
            /\ history[i].started_at = sync_logs[history[i].id].started_at
            /\ history[i].status = sync_logs[history[i].id].status
       /\ \A i, j \in DOMAIN history :
            i < j => history[i].started_at >= history[j].started_at
       /\ \A k \in own \ shown :
            \A i \in DOMAIN history : sync_logs[k].started_at <= history[i].started_at

\* A history of ten rows of a user who has more, from a log that also holds
\* rows of another user and rows inserted at the same instant.
C24_Witness ==
  /\ historyUser # 0
  /\ Len(history) = 10
  /\ Cardinality({ k \in DOMAIN sync_logs : sync_logs[k].user_id = historyUser }) > 10
  /\ \E k \in DOMAIN sync_logs : sync_logs[k].user_id # historyUser
  /\ \E i \in DOMAIN history : i > 1 /\ history[i].started_at = history[i - 1].started_at

====
